---------------------------- MODULE Spec2Model ----------------------------
(***************************************************************************)
(* A model of the ILS bibliographic pipeline: BibliographicAPI.py          *)
(* (BookEntry, BibliographicalAPI.__cleanStringData, sortRecordsByTitle,   *)
(* sortRecordsByPublishDate, getRecordsFromAPI) and the route of app.py    *)
(* that fetches the records and sorts them by the requested method.        *)
(*                                                                         *)
(* Python strings are sequences of one-character strings, so slicing,      *)
(* indexing and stripping are computed and not assumed.  A Python value is *)
(* a record [t, s, v]: t is its type ("none", "int", "str"), s the         *)
(* characters of a str, v the number of an int.  A raised exception is     *)
(* the value whose t is the exception's name.                              *)
(***************************************************************************)
EXTENDS Integers, Sequences, FiniteSets, TLC

VARIABLES
    pc,         \* position of the route / of getRecordsFromAPI
    session,    \* "none", "open" or "closed": the requests.Session of the call
    members,    \* ils_member_items, the decoded "member" list
    idx,        \* position of the for loop in members (1-based)
    scheme,     \* "https" or "http": scheme of the URL of the session.get under way
    attempts,   \* attempts sent so far by the session.get under way
    inflight,   \* requests sent and not yet answered
    records,    \* the list `records` of getRecordsFromAPI
    error,      \* name of the exception that left the call, or "none"
    resps,      \* history: for each member processed, what its detail GET gave
    reqlog,     \* history: every session.get, its target (0: the list, k: member k),
                \* the session's state and the requests pending when it began
    listResp,   \* history: what the list GET gave
    sort_method, \* sort_method of the route of app.py
    rendered,   \* sorted_bib_results of app.py
    statuses,   \* history: status of every attempt of the current session.get
    cleanArg,   \* argument of a direct call of __cleanStringData
    cleanRet,   \* its result
    sortArg,    \* argument of a direct call of sortRecordsByTitle
    sortAsc,    \* sortRecordsByTitle(sortArg, False)
    sortDesc    \* sortRecordsByTitle(sortAsc, True)

vars == <<pc, session, members, idx, scheme, attempts, inflight, records, error,
          resps, reqlog, listResp, sort_method, rendered, statuses, cleanArg,
          cleanRet, sortArg, sortAsc, sortDesc>>

fetchVars == <<pc, session, members, idx, scheme, attempts, inflight, records,
               error, resps, reqlog, listResp, sort_method, rendered>>
cleanVars == <<cleanArg, cleanRet>>
sortVars == <<sortArg, sortAsc, sortDesc>>

-----------------------------------------------------------------------------
(* Bounds of the model. *)

\* longest string drawn over CleanAlphabet as an argument of __cleanStringData
MaxStrLen == 3
\* longest list drawn as an argument of sortRecordsByTitle
MaxSortLen == 3
\* longest "member" list of a list response
MaxMembers == 3

-----------------------------------------------------------------------------
(* Python values. *)

PyNone == [t |-> "none", s |-> <<>>, v |-> 0]
PyInt(n) == [t |-> "int", s |-> <<>>, v |-> n]
PyStr(cs) == [t |-> "str", s |-> cs, v |-> 0]
\* a key that the decoded JSON object does not have
PyMissing == [t |-> "missing", s |-> <<>>, v |-> 0]
\* the exception `name`, raised
Raise(name) == [t |-> name, s |-> <<>>, v |-> 0]

\* "N/A"
NA == <<"N", "/", "A">>

\* str.strip() removes these from both ends (the whitespace of the alphabets used)
Whitespace == {" ", "\t", "\n"}

RECURSIVE lstrip(_)
lstrip(cs) ==
    IF cs # <<>> /\ Head(cs) \in Whitespace THEN lstrip(Tail(cs)) ELSE cs

RECURSIVE rstrip(_)
rstrip(cs) ==
    IF cs # <<>> /\ cs[Len(cs)] \in Whitespace
    THEN rstrip(SubSeq(cs, 1, Len(cs) - 1))
    ELSE cs

strip(cs) == rstrip(lstrip(cs))

\* excluded_chars of __cleanStringData
excluded_chars == {"/", ".", ",", "[", "]", ":", " "}

\* __cleanStringData without the final strip()
cleanStringData_NoStrip(data) ==
    IF data = PyNone THEN PyStr(NA)
    ELSE IF data.t = "str" THEN
        IF data.s = <<>> THEN Raise("IndexError")
        ELSE LET d1 == IF data.s[Len(data.s)] \in excluded_chars
                       THEN SubSeq(data.s, 1, Len(data.s) - 1)
                       ELSE data.s
             IN  IF d1 = <<>> THEN Raise("IndexError")
                 ELSE PyStr(IF d1[1] \in excluded_chars THEN Tail(d1) ELSE d1)
    ELSE PyStr(NA)

RECURSIVE TrimAll(_)
TrimAll(cs) ==
    IF cs # <<>> /\ cs[Len(cs)] \in excluded_chars
    THEN TrimAll(SubSeq(cs, 1, Len(cs) - 1))
    ELSE IF cs # <<>> /\ cs[1] \in excluded_chars THEN TrimAll(Tail(cs))
    ELSE cs

\* __cleanStringData removing excluded characters until none is left at an end
cleanStringData_Loop(data) ==
    IF data = PyNone THEN PyStr(NA)
    ELSE IF data.t = "str" THEN
        IF data.s = <<>> \/ TrimAll(data.s) = <<>> THEN Raise("IndexError")
        ELSE PyStr(strip(TrimAll(data.s)))
    ELSE PyStr(NA)

\* BibliographicalAPI.__cleanStringData(data): the str returned, or the
\* IndexError that data[-1] or data[0] raises on an empty str
cleanStringData(data) ==
    IF data = PyNone THEN PyStr(NA)                            \* data == None
    ELSE IF data.t = "str" THEN                                \* type(data) == str
        IF data.s = <<>> THEN Raise("IndexError")              \* data[-1] of ""
        ELSE LET d1 == IF data.s[Len(data.s)] \in excluded_chars
                       THEN SubSeq(data.s, 1, Len(data.s) - 1) \* data[:-1]
                       ELSE data.s
             IN  IF d1 = <<>> THEN Raise("IndexError")         \* data[0] of ""
                 ELSE LET d2 == IF d1[1] \in excluded_chars
                                THEN Tail(d1)                  \* data[1:]
                                ELSE d1
                      IN  PyStr(strip(d2))
    ELSE PyStr(NA)

-----------------------------------------------------------------------------
(* Comparison of str and int(): what the sort keys need. *)

\* the printable ASCII characters in code point order: 32 (" ") to 95 ("_")
AsciiLow == <<
    " ", "!", "\"", "#", "$", "%", "&", "'", "(", ")", "*", "+",
    ",", "-", ".", "/", "0", "1", "2", "3", "4", "5", "6", "7",
    "8", "9", ":", ";", "<", "=", ">", "?", "@", "A", "B", "C",
    "D", "E", "F", "G", "H", "I", "J", "K", "L", "M", "N", "O",
    "P", "Q", "R", "S", "T", "U", "V", "W", "X", "Y", "Z", "[",
    "\\", "]", "^", "_"
>>

\* and 97 ("a") to 126 ("~")
AsciiHigh == <<
    "a", "b", "c", "d", "e", "f", "g", "h", "i", "j", "k", "l",
    "m", "n", "o", "p", "q", "r", "s", "t", "u", "v", "w", "x",
    "y", "z", "{", "|", "}", "~"
>>

\* ord(c) of one of these characters
ord(c) ==
    IF \E k \in 1..Len(AsciiLow) : AsciiLow[k] = c
    THEN 31 + CHOOSE k \in 1..Len(AsciiLow) : AsciiLow[k] = c
    ELSE 96 + CHOOSE k \in 1..Len(AsciiHigh) : AsciiHigh[k] = c

\* a < b of two str: lexicographic by code point, a proper prefix first
RECURSIVE StrLess(_, _)
StrLess(a, b) ==
    IF b = <<>> THEN FALSE
    ELSE IF a = <<>> THEN TRUE
    ELSE IF a[1] = b[1] THEN StrLess(Tail(a), Tail(b))
    ELSE ord(a[1]) < ord(b[1])

Digits == <<"0", "1", "2", "3", "4", "5", "6", "7", "8", "9">>

IsDigit(c) == \E k \in 1..10 : Digits[k] = c

DigitValue(c) == (CHOOSE k \in 1..10 : Digits[k] = c) - 1

RECURSIVE DecimalValue(_)
DecimalValue(cs) ==
    IF cs = <<>> THEN 0
    ELSE 10 * DecimalValue(SubSeq(cs, 1, Len(cs) - 1)) + DigitValue(cs[Len(cs)])

\* int(x): an int is itself; a str is stripped, may carry one sign, and must then
\* be decimal digits (ValueError otherwise); None raises TypeError.  The "_"
\* separators int() also accepts are in none of the strings drawn here.
int(x) ==
    IF x.t = "int" THEN x
    ELSE IF x.t = "str" THEN
        LET body == strip(x.s)
            signed == body # <<>> /\ body[1] \in {"+", "-"}
            digs == IF signed THEN Tail(body) ELSE body
        IN  IF digs # <<>> /\ \A k \in 1..Len(digs) : IsDigit(digs[k])
            THEN PyInt(IF signed /\ body[1] = "-"
                       THEN 0 - DecimalValue(digs) ELSE DecimalValue(digs))
            ELSE Raise("ValueError")
    ELSE Raise("TypeError")

-----------------------------------------------------------------------------
(* BookEntry and the two sorts. *)

\* BookEntry(title, author, isbn, date_of_publication, call_number)
BookEntry(title, author, isbn, date_of_publication, call_number) ==
    [title |-> title, author |-> author, isbn |-> isbn,
     date_of_publication |-> date_of_publication, call_number |-> call_number]

\* a Python list of BookEntry, and a value that is no list
PyList(l) == [t |-> "list", l |-> l]
NotAList == [t |-> "none", l |-> <<>>]

Reverse(l) == [k \in 1..Len(l) |-> l[Len(l) + 1 - k]]

\* key(a) < key(b) for the key of the sort `by`
KeyLess(by, a, b) ==
    IF by = "title" THEN StrLess(a.title.s, b.title.s)
    ELSE int(a.date_of_publication).v < int(b.date_of_publication).v

\* x put into the sorted list l after every element whose key is not greater
RECURSIVE Insert(_, _, _)
Insert(by, x, l) ==
    IF l = <<>> THEN <<x>>
    ELSE IF KeyLess(by, x, l[1]) THEN <<x>> \o l
    ELSE <<l[1]>> \o Insert(by, x, Tail(l))

\* a stable ascending sort: equal keys keep the order they have in l
RECURSIVE StableSort(_, _)
StableSort(by, l) ==
    IF l = <<>> THEN <<>>
    ELSE Insert(by, l[Len(l)], StableSort(by, SubSeq(l, 1, Len(l) - 1)))

\* sorted() that reverses the ascending result when reverse is set
sorted_Mirror(l, by, reverse) ==
    IF reverse THEN Reverse(StableSort(by, l)) ELSE StableSort(by, l)

\* sorted(l, key=..., reverse=reverse): list.sort reverses the list, sorts it
\* stably and reverses it again, so equal keys keep their order in l either way
sorted(l, by, reverse) ==
    IF reverse THEN Reverse(StableSort(by, Reverse(l))) ELSE StableSort(by, l)

\* BibliographicalAPI.sortRecordsByTitle(records, descending)
sortRecordsByTitle(recs, descending) ==
    IF recs.t # "list" THEN PyList(<<>>)
    ELSE PyList(sorted(recs.l, "title", descending))

\* sortRecordsByPublishDate that leaves out the records whose date is no number
sortRecordsByPublishDate_Skip(recs, descending) ==
    IF recs.t # "list" THEN PyList(<<>>)
    ELSE PyList(sorted(SelectSeq(recs.l,
                           LAMBDA b : int(b.date_of_publication).t = "int"),
                       "date", descending))

\* BibliographicalAPI.sortRecordsByPublishDate(records, descending): the key
\* int(book.date_of_publication) is computed for every record before the sort,
\* and the first one that raises ends the call
sortRecordsByPublishDate(recs, descending) ==
    IF recs.t # "list" THEN PyList(<<>>)
    ELSE LET bad == {k \in 1..Len(recs.l) :
                        int(recs.l[k].date_of_publication).t # "int"}
         IN  IF bad # {}
             THEN [t |-> int(recs.l[CHOOSE k \in bad : \A j \in bad : k <= j]
                                 .date_of_publication).t,
                   l |-> <<>>]
             ELSE PyList(sorted(recs.l, "date", descending))

-----------------------------------------------------------------------------
(* Values of the variables a specification does not use. *)

NotCalled == [t |-> "notcalled", s |-> <<>>, v |-> 0]
NotSorted == [t |-> "notsorted", l |-> <<>>]
NoListBody == [json |-> FALSE, has_member |-> FALSE, has_count |-> FALSE, member |-> <<>>]
NoListResponse == [kind |-> "none", status |-> 0, body |-> NoListBody]

FetchIdle ==
    /\ pc = "idle" /\ session = "none" /\ members = <<>> /\ idx = 0
    /\ scheme = "none" /\ attempts = 0 /\ inflight = 0 /\ records = <<>>
    /\ error = "none" /\ resps = <<>> /\ reqlog = <<>> /\ rendered = NotSorted
    /\ listResp = NoListResponse /\ sort_method = "unset" /\ statuses = <<>>
CleanIdle == cleanArg = NotCalled /\ cleanRet = NotCalled
SortIdle == sortArg = NotSorted /\ sortAsc = NotSorted /\ sortDesc = NotSorted

\* the sequences over S of length 0..n
SeqsUpTo(S, n) == UNION {[1..k -> S] : k \in 0..n}

-----------------------------------------------------------------------------
(* SpecClean: __cleanStringData called on one value. *)

CleanAlphabet == {" ", ".", "[", "a"}

Plain == <<"p", "l", "a", "i", "n">>
BracketHello == <<" ", " ", "[", "H", "e", "l", "l", "o", "]", ".", " ">>

CleanInputs ==
    {PyNone, PyInt(42), PyInt(0), PyStr(Plain), PyStr(BracketHello)}
        \cup {PyStr(cs) : cs \in SeqsUpTo(CleanAlphabet, MaxStrLen)}

InitClean ==
    /\ cleanArg \in CleanInputs
    /\ cleanRet = NotCalled
    /\ FetchIdle /\ SortIdle

CallClean ==
    /\ cleanRet = NotCalled
    /\ cleanRet' = cleanStringData(cleanArg)
    /\ UNCHANGED <<cleanArg, fetchVars, statuses, sortVars>>

NextClean == CallClean

SpecClean == InitClean /\ [][NextClean]_vars

-----------------------------------------------------------------------------
(* SpecSort: sortRecordsByTitle(sortRecordsByTitle(R, False), True). *)

Str_x == PyStr(<<"x">>)

SortTitles == {<<"a">>, <<"a", "b">>, <<"B">>}
SortAuthors == {<<"x">>, <<"y">>}

SortUniverse ==
    {BookEntry(PyStr(ti), PyStr(au), Str_x, Str_x, Str_x) :
        ti \in SortTitles, au \in SortAuthors}

SortInputs == {NotAList} \cup {PyList(l) : l \in SeqsUpTo(SortUniverse, MaxSortLen)}

InitSort ==
    /\ sortArg \in SortInputs
    /\ sortAsc = NotSorted /\ sortDesc = NotSorted
    /\ FetchIdle /\ CleanIdle

SortAscending ==
    /\ sortAsc = NotSorted
    /\ sortAsc' = sortRecordsByTitle(sortArg, FALSE)
    /\ UNCHANGED <<sortArg, sortDesc, fetchVars, statuses, cleanVars>>

SortDescending ==
    /\ sortAsc # NotSorted /\ sortDesc = NotSorted
    /\ sortDesc' = sortRecordsByTitle(sortAsc, TRUE)
    /\ UNCHANGED <<sortArg, sortAsc, fetchVars, statuses, cleanVars>>

NextSort == SortAscending \/ SortDescending

SpecSort == InitSort /\ [][NextSort]_vars

-----------------------------------------------------------------------------
(* The session: the Retry mounted on "https://" and what a GET comes to. *)

\* BibliographicalAPI.max_retries
max_retries == 5

\* status_forcelist of the Retry
status_forcelist == {400, 401}

\* What an attempt may be answered with: a status, where 503 stands for a 503
\* that carries a Retry-After header, or 0 for no response at all (the connection
\* failed).
Statuses == {0, 200, 400, 401, 404, 503}

ConnectionFailed(status) == status = 0

HasRetryAfter(status) == status = 503

\* Retry.RETRY_AFTER_STATUS_CODES
RETRY_AFTER_STATUS_CODES == {413, 429, 503}

\* bool(response): Response.ok, no 4xx or 5xx status
Ok(status) == status < 400

\* bool(x) of a value that may be a link
Truthy(x) == (x.t = "str" /\ x.s # <<>>) \/ (x.t = "int" /\ x.v # 0)

\* A URL is a str written here in two pieces, its scheme prefix and the rest.
HttpsLink == PyStr(<<"https://", "bib">>)
SchemeOf(url) == IF url.s[1] = "https://" THEN "https" ELSE "http"

\* The Retry of the adapter that serves scheme `sch`.  getRecordsFromAPI mounts
\* Retry(total=max_retries, status_forcelist=[400, 401]) on "https://" alone; an
\* "http://" URL keeps the session's default adapter, whose Retry has total 0
\* and no forcelist.
RetryTotal(sch) == IF sch = "https" THEN max_retries ELSE 0
Forcelist(sch) == IF sch = "https" THEN status_forcelist ELSE {}

\* `total` of the Retry when the n-th attempt is answered: every attempt that
\* was retried took one from it
Remaining(sch, n) == RetryTotal(sch) - (n - 1)

\* Retry.is_retry for a GET: a status of the forcelist, or, while `total` is not
\* 0, a 413, 429 or 503 that carries a Retry-After header
IsRetry(sch, status, has_retry_after, n) ==
    \/ status \in Forcelist(sch)
    \/ /\ Remaining(sch, n) # 0
       /\ has_retry_after
       /\ status \in RETRY_AFTER_STATUS_CODES

\* retries exhausted one attempt early
Exhausted_OneEarly(sch, n) == Remaining(sch, n) - 1 <= 0

\* Retry.increment takes one from `total` and Retry.is_exhausted holds once it is
\* below 0: with total = max_retries, when attempt max_retries + 1 has failed
Exhausted(sch, n) == Remaining(sch, n) - 1 < 0

\* What becomes of the n-th attempt of a session.get answered by `status`:
\* "retry" (the adapter backs off and sends again), "response" (the response is
\* returned to the caller), or the exception session.get raises: RetryError
\* when a status exhausted the Retry, ConnectionError when a failed connection did
AttemptOutcome(sch, status, n) ==
    IF ConnectionFailed(status)
    THEN IF Exhausted(sch, n) THEN "ConnectionError" ELSE "retry"
    ELSE IF IsRetry(sch, status, HasRetryAfter(status), n)
    THEN IF Exhausted(sch, n) THEN "RetryError" ELSE "retry"
    ELSE "response"

-----------------------------------------------------------------------------
(* Decoded payloads. *)

\* a member of the list response; link is PyMissing when it has no "link" key
Member(link) == [link |-> link]

\* The members drawn: no "link" key, a null link, an empty link, a link.  The
\* links of the API are https URLs, like the endpoint; a GET of an "http://"
\* URL is gone through in SpecRetry.
MemberKinds ==
    {Member(PyMissing), Member(PyNone), Member(PyStr(<<>>)), Member(HttpsLink)}

ListBody(ms) == [json |-> TRUE, has_member |-> TRUE, has_count |-> TRUE, member |-> ms]
ListNotJson == NoListBody
ListNoMember == [json |-> TRUE, has_member |-> FALSE, has_count |-> TRUE, member |-> <<>>]
ListNoCount ==
    [json |-> TRUE, has_member |-> TRUE, has_count |-> FALSE,
     member |-> <<Member(HttpsLink)>>]

\* bodies of a list response with a success status
ListBodies ==
    {ListNotJson, ListNoMember, ListNoCount}
        \cup {ListBody(ms) : ms \in SeqsUpTo(MemberKinds, MaxMembers)}

\* bodies of a list response with a failure status that is not retried
ListErrorBodies == {ListNotJson, ListNoMember}

\* the decoded detail payload: bib_data and holding_data say whether the key is
\* there, the five leaves are values (PyNone for null, PyMissing for no key)
DetailBody(json, bib_data, holding_data, title, author, isbn, date, call) ==
    [json |-> json, bib_data |-> bib_data, holding_data |-> holding_data,
     title |-> title, author |-> author, isbn |-> isbn,
     date_of_publication |-> date, call_number |-> call]

BodyB2001 ==
    DetailBody(TRUE, TRUE, TRUE, PyStr(<<" ", " ", "b", ".">>), Str_x, PyInt(42),
               PyStr(<<"2", "0", "0", "1">>), PyStr(<<"c", " ", " ">>))
BodyA1999 ==
    DetailBody(TRUE, TRUE, TRUE, PyStr(<<"a">>), Str_x, Str_x,
               PyStr(<<"1", "9", "9", "9">>), Str_x)
BodyA2010 ==
    DetailBody(TRUE, TRUE, TRUE, PyStr(<<"a">>), PyStr(<<"y">>), Str_x,
               PyStr(<<"2", "0", "1", "0">>), Str_x)
BodyNullDate ==
    DetailBody(TRUE, TRUE, TRUE, PyStr(<<"c">>), PyNone, Str_x, PyNone, Str_x)
BodyEmptyTitle ==
    DetailBody(TRUE, TRUE, TRUE, PyStr(<<>>), Str_x, Str_x,
               PyStr(<<"2", "0", "0", "1">>), Str_x)
BodyNoBib ==
    DetailBody(TRUE, FALSE, TRUE, PyMissing, PyMissing, PyMissing, PyMissing, Str_x)
BodyNotJson ==
    DetailBody(FALSE, FALSE, FALSE, PyMissing, PyMissing, PyMissing, PyMissing,
               PyMissing)

\* bodies of a detail response with a success status
DetailBodies ==
    {BodyB2001, BodyA1999, BodyA2010, BodyNullDate, BodyEmptyTitle, BodyNoBib,
     BodyNotJson}

\* what a GET gave: a response, or the exception of exhausted retries
Response(status, body) == [kind |-> "response", status |-> status, body |-> body]
NoRequest == [kind |-> "norequest", status |-> 0, body |-> BodyNotJson]
NoLinkKey == [kind |-> "KeyError", status |-> 0, body |-> BodyNotJson]
DetailGetRaised(name) == [kind |-> name, status |-> 0, body |-> BodyNotJson]
ListGetRaised(name) == [kind |-> name, status |-> 0, body |-> NoListBody]

\* ils_data.json(), ["member"] and ["total_record_count"] without the last one
DecodeList_NoCount(body) ==
    IF ~body.json THEN "JSONDecodeError"
    ELSE IF ~body.has_member THEN "KeyError"
    ELSE "ok"

\* ils_data.json(), ils_decoded_json["member"] and
\* ils_decoded_json["total_record_count"]: "ok" or the exception raised
DecodeList(body) ==
    IF ~body.json THEN "JSONDecodeError"
    ELSE IF ~body.has_member THEN "KeyError"
    ELSE IF ~body.has_count THEN "KeyError"
    ELSE "ok"

\* __cleanStringData(decoded[outer][leaf]): KeyError when a key is not there
CleanField(has_outer, leaf) ==
    IF ~has_outer \/ leaf = PyMissing THEN Raise("KeyError")
    ELSE cleanStringData(leaf)

NoEntry == BookEntry(PyNone, PyNone, PyNone, PyNone, PyNone)

Exceptions == {"KeyError", "IndexError", "JSONDecodeError", "RetryError",
               "ConnectionError", "ValueError", "TypeError"}

\* bib_data.json() and the five fields cleaned in the order of the code: the
\* BookEntry, or the first exception raised
MakeEntry(body) ==
    IF ~body.json THEN [t |-> "JSONDecodeError", entry |-> NoEntry]
    ELSE LET c == << CleanField(body.bib_data, body.title),
                     CleanField(body.bib_data, body.author),
                     CleanField(body.bib_data, body.isbn),
                     CleanField(body.bib_data, body.date_of_publication),
                     CleanField(body.holding_data, body.call_number) >>
             bad == {k \in 1..5 : c[k].t \in Exceptions}
         IN  IF bad # {}
             THEN [t |-> c[CHOOSE k \in bad : \A j \in bad : k <= j].t,
                   entry |-> NoEntry]
             ELSE [t |-> "ok", entry |-> BookEntry(c[1], c[2], c[3], c[4], c[5])]

-----------------------------------------------------------------------------
(* Spec: the route of app.py, which calls getRecordsFromAPI and sorts what   *)
(* it returns.  getRecordsFromAPI is cut where it waits for the network.     *)

Init ==
    /\ pc = "route" /\ session = "none" /\ members = <<>> /\ idx = 0
    /\ scheme = "none" /\ attempts = 0 /\ inflight = 0 /\ records = <<>>
    /\ error = "none" /\ resps = <<>> /\ reqlog = <<>> /\ rendered = NotSorted
    /\ listResp = NoListResponse /\ sort_method = "unset" /\ statuses = <<>>
    /\ CleanIdle /\ SortIdle

\* an exception leaves getRecordsFromAPI with the session left open
Raises_NoClose(name) ==
    /\ pc' = "raised"
    /\ error' = name
    /\ session' = session

\* An exception leaves getRecordsFromAPI: nothing catches it, and the with
\* statement closes the session on the way out.
Raises(name) ==
    /\ pc' = "raised"
    /\ error' = name
    /\ session' = "closed"

\* records = [], the with statement opens the session, the Retry is mounted on
\* "https://"; the first GET goes to the endpoint URL, an https URL
EnterSession ==
    /\ pc = "route"
    /\ pc' = "list_get"
    /\ session' = "open"
    /\ records' = <<>>
    /\ scheme' = "https"
    /\ attempts' = 0
    /\ UNCHANGED <<members, idx, inflight, error, resps, reqlog, listResp,
                   sort_method, rendered, statuses, cleanVars, sortVars>>

\* session.get sends one attempt: the first attempt of a GET enters reqlog
SendAttempt ==
    /\ pc \in {"list_get", "detail_get"}
    /\ inflight = 0
    /\ inflight' = inflight + 1
    /\ attempts' = attempts + 1
    /\ reqlog' = IF attempts = 0
                 THEN Append(reqlog, [target |-> IF pc = "list_get" THEN 0 ELSE idx,
                                      session |-> session, pending |-> inflight])
                 ELSE reqlog
    /\ UNCHANGED <<pc, session, members, idx, scheme, records, error, resps,
                   listResp, sort_method, rendered, statuses, cleanVars, sortVars>>

\* the attempt failed and retries are left: the adapter backs off, sends again
ReceiveAndRetry(status) ==
    /\ pc \in {"list_get", "detail_get"}
    /\ inflight = 1
    /\ AttemptOutcome(scheme, status, attempts) = "retry"
    /\ inflight' = 0
    /\ UNCHANGED <<pc, session, members, idx, scheme, attempts, records, error,
                   resps, reqlog, listResp, sort_method, rendered, statuses,
                   cleanVars, sortVars>>

\* the attempt failed and no retry is left: session.get raises
ReceiveExhausted(status) ==
    /\ pc \in {"list_get", "detail_get"}
    /\ inflight = 1
    /\ AttemptOutcome(scheme, status, attempts) \in {"RetryError", "ConnectionError"}
    /\ inflight' = 0
    /\ Raises(AttemptOutcome(scheme, status, attempts))
    /\ IF pc = "list_get"
       THEN /\ listResp' = ListGetRaised(AttemptOutcome(scheme, status, attempts))
            /\ resps' = resps
       ELSE /\ resps' = Append(resps,
                           DetailGetRaised(AttemptOutcome(scheme, status, attempts)))
            /\ listResp' = listResp
    /\ scheme' = "none"
    /\ attempts' = 0
    /\ UNCHANGED <<members, idx, records, reqlog, sort_method, rendered,
                   statuses, cleanVars, sortVars>>

\* The list GET returns a response; its status is not looked at.  The response
\* is decoded and "member" and "total_record_count" are read.
ReceiveListResponse(status, body) ==
    /\ pc = "list_get"
    /\ inflight = 1
    /\ AttemptOutcome(scheme, status, attempts) = "response"
    /\ inflight' = 0
    /\ listResp' = Response(status, body)
    /\ IF DecodeList(body) # "ok"
       THEN Raises(DecodeList(body)) /\ UNCHANGED <<members, idx>>
       ELSE /\ members' = body.member
            /\ idx' = 1
            /\ pc' = "loop"
            /\ UNCHANGED <<session, error>>
    /\ scheme' = "none"
    /\ attempts' = 0
    /\ UNCHANGED <<records, resps, reqlog, sort_method, rendered, statuses,
                   cleanVars, sortVars>>

\* for member in ils_member_items: member["link"] of a member without the key
MemberKeyError ==
    /\ pc = "loop"
    /\ idx <= Len(members)
    /\ members[idx].link = PyMissing
    /\ Raises("KeyError")
    /\ resps' = Append(resps, NoLinkKey)
    /\ UNCHANGED <<members, idx, scheme, attempts, inflight, records, reqlog,
                   listResp, sort_method, rendered, statuses, cleanVars, sortVars>>

\* if member_url: false for None and for "", and the loop goes on
SkipMember ==
    /\ pc = "loop"
    /\ idx <= Len(members)
    /\ members[idx].link # PyMissing
    /\ ~Truthy(members[idx].link)
    /\ idx' = idx + 1
    /\ resps' = Append(resps, NoRequest)
    /\ UNCHANGED <<pc, session, members, scheme, attempts, inflight, records,
                   error, reqlog, listResp, sort_method, rendered, statuses,
                   cleanVars, sortVars>>

\* if member_url: true, session.get(member_url) begins
StartDetail ==
    /\ pc = "loop"
    /\ idx <= Len(members)
    /\ members[idx].link # PyMissing
    /\ Truthy(members[idx].link)
    /\ pc' = "detail_get"
    /\ scheme' = SchemeOf(members[idx].link)
    /\ attempts' = 0
    /\ UNCHANGED <<session, members, idx, inflight, records, error, resps,
                   reqlog, listResp, sort_method, rendered, statuses, cleanVars,
                   sortVars>>

\* The detail GET returns a response.  if bib_data: false for a failure status
\* and the member is passed over; otherwise the payload is decoded, the five
\* fields are cleaned and the BookEntry is appended.
ReceiveDetailResponse(status, body) ==
    /\ pc = "detail_get"
    /\ inflight = 1
    /\ AttemptOutcome(scheme, status, attempts) = "response"
    /\ inflight' = 0
    /\ resps' = Append(resps, Response(status, body))
    /\ IF ~Ok(status)
       THEN /\ idx' = idx + 1
            /\ pc' = "loop"
            /\ UNCHANGED <<records, session, error>>
       ELSE IF MakeEntry(body).t = "ok"
       THEN /\ records' = Append(records, MakeEntry(body).entry)
            /\ idx' = idx + 1
            /\ pc' = "loop"
            /\ UNCHANGED <<session, error>>
       ELSE /\ Raises(MakeEntry(body).t)
            /\ UNCHANGED <<records, idx>>
    /\ scheme' = "none"
    /\ attempts' = 0
    /\ UNCHANGED <<members, reqlog, listResp, sort_method, rendered, statuses,
                   cleanVars, sortVars>>

\* the loop is over: the with statement closes the session, return records
Return ==
    /\ pc = "loop"
    /\ idx > Len(members)
    /\ pc' = "returned"
    /\ session' = "closed"
    /\ UNCHANGED <<members, idx, scheme, attempts, inflight, records, error,
                   resps, reqlog, listResp, sort_method, rendered, statuses,
                   cleanVars, sortVars>>

\* the values of sort_method the route tells apart; "other" is any other value
\* and no value at all
SortMethods ==
    {"descending_alphabetical", "ascending_publish_date",
     "descending_publish_date", "other"}

\* the if/elif chain of bibliographic_results
SortedBy(method, recs) ==
    IF method = "descending_alphabetical" THEN sortRecordsByTitle(recs, TRUE)
    ELSE IF method = "ascending_publish_date"
    THEN sortRecordsByPublishDate(recs, FALSE)
    ELSE IF method = "descending_publish_date"
    THEN sortRecordsByPublishDate(recs, TRUE)
    ELSE sortRecordsByTitle(recs, FALSE)

\* bibliographic_results sorts bib_results by the requested method
Sort(method) ==
    /\ pc = "returned"
    /\ sort_method' = method
    /\ IF SortedBy(method, PyList(records)).t = "list"
       THEN /\ rendered' = SortedBy(method, PyList(records))
            /\ pc' = "rendered"
            /\ error' = error
       ELSE /\ rendered' = rendered
            /\ pc' = "sort_raised"
            /\ error' = SortedBy(method, PyList(records)).t
    /\ UNCHANGED <<session, members, idx, scheme, attempts, inflight, records,
                   resps, reqlog, listResp, statuses, cleanVars, sortVars>>

\* what the server may answer: the guards come first, so that the answers are
\* drawn only where a response is awaited
ListResponds ==
    /\ pc = "list_get" /\ inflight = 1
    /\ \/ \E body \in ListBodies : ReceiveListResponse(200, body)
       \/ \E status \in Statuses \ {0, 200} :
             \E body \in ListErrorBodies : ReceiveListResponse(status, body)

DetailResponds ==
    /\ pc = "detail_get" /\ inflight = 1
    /\ \/ \E body \in DetailBodies : ReceiveDetailResponse(200, body)
       \/ \E status \in Statuses \ {0, 200} :
             ReceiveDetailResponse(status, BodyNotJson)

Next ==
    \/ EnterSession
    \/ SendAttempt
    \/ \E status \in Statuses : ReceiveAndRetry(status)
    \/ \E status \in Statuses : ReceiveExhausted(status)
    \/ ListResponds
    \/ MemberKeyError
    \/ SkipMember
    \/ StartDetail
    \/ DetailResponds
    \/ Return
    \/ \E method \in SortMethods : Sort(method)

Spec == Init /\ [][Next]_vars

-----------------------------------------------------------------------------
(* SpecRetry: one session.get on its own, with the status of every attempt   *)
(* kept.  The decisions are those of Spec: AttemptOutcome.                   *)

InitRetry ==
    /\ pc = "get" /\ session = "open" /\ scheme \in {"https", "http"}
    /\ attempts = 0 /\ inflight = 0 /\ statuses = <<>> /\ error = "none"
    /\ members = <<>> /\ idx = 0 /\ records = <<>> /\ resps = <<>>
    /\ reqlog = <<>> /\ rendered = NotSorted /\ listResp = NoListResponse
    /\ sort_method = "unset"
    /\ CleanIdle /\ SortIdle

\* the adapter sends one attempt
GetSend ==
    /\ pc = "get"
    /\ inflight = 0
    /\ inflight' = 1
    /\ attempts' = attempts + 1
    /\ UNCHANGED <<pc, session, scheme, statuses, error, members, idx, records,
                   resps, reqlog, rendered, listResp, sort_method, cleanVars,
                   sortVars>>

\* the answer to the attempt: the adapter sends again, gives up with an
\* exception, or hands the response to the caller
GetReceive(status) ==
    /\ pc = "get"
    /\ inflight = 1
    /\ inflight' = 0
    /\ statuses' = Append(statuses, status)
    /\ IF AttemptOutcome(scheme, status, attempts) = "retry"
       THEN pc' = "get" /\ error' = error
       ELSE IF AttemptOutcome(scheme, status, attempts) = "response"
       THEN pc' = "get_returned" /\ error' = error
       ELSE pc' = "get_raised" /\ error' = AttemptOutcome(scheme, status, attempts)
    /\ UNCHANGED <<session, scheme, attempts, members, idx, records, resps,
                   reqlog, rendered, listResp, sort_method, cleanVars, sortVars>>

NextRetry ==
    \/ GetSend
    \/ \E status \in Statuses : GetReceive(status)

SpecRetry == InitRetry /\ [][NextRetry]_vars

-----------------------------------------------------------------------------
(* What the claims speak of. *)

\* getRecordsFromAPI, or the route after it, is over
Ended == pc \in {"raised", "returned", "rendered", "sort_raised"}

\* a detail GET that failed: retries exhausted, or a response that is falsy
FailedDetail(r) ==
    \/ r.kind \in {"RetryError", "ConnectionError"}
    \/ r.kind = "response" /\ ~Ok(r.status)

\* a detail GET that gave a success response whose payload makes a BookEntry
GoodDetail(r) ==
    r.kind = "response" /\ Ok(r.status) /\ MakeEntry(r.body).t = "ok"

\* the good detail responses so far, in the order of their members
Goods == SelectSeq(resps, GoodDetail)

\* one BookEntry for each of them
ExpectedRecords == [k \in 1..Len(Goods) |-> MakeEntry(Goods[k].body).entry]

Fields == {"title", "author", "isbn", "date_of_publication", "call_number"}

Dates(l) == [k \in 1..Len(l) |-> l[k].date_of_publication.s]

Count(l, x) == Cardinality({k \in 1..Len(l) : l[k] = x})

Hello == <<"H", "e", "l", "l", "o">>
HelloInBrackets == <<"[", "H", "e", "l", "l", "o", "]", ".">>
Y2001 == <<"2", "0", "0", "1">>
Y1999 == <<"1", "9", "9", "9">>
Y2010 == <<"2", "0", "1", "0">>

-----------------------------------------------------------------------------
(* C1 *)

\* C1: every member whose detail GET failed, by exhausting its retries or by a
\* falsy response, is passed over without an exception: the loop has moved on
\* to the members after it.
C1_FailedDetailIsSkipped ==
    \A k \in 1..Len(resps) : FailedDetail(resps[k]) => idx > k

\* a member whose detail GET gave a 4xx response was passed over, and the call
\* returned the BookEntry of another member
C1_Witness ==
    /\ pc = "returned"
    /\ Len(records) >= 1
    /\ \E k \in 1..Len(resps) : resps[k].kind = "response" /\ ~Ok(resps[k].status)

-----------------------------------------------------------------------------
(* C2 *)

\* C2: when every member carries a link field and every success response is
\* well formed, the call returns, and returns one BookEntry for each member
\* whose link is truthy and whose detail response is a success, in the order of
\* the members.
C2_OneRecordPerGoodMember ==
    ( /\ Ended
      /\ listResp.kind = "response" /\ DecodeList(listResp.body) = "ok"
      /\ \A m \in 1..Len(members) : members[m].link # PyMissing
      /\ \A k \in 1..Len(resps) :
            (resps[k].kind = "response" /\ Ok(resps[k].status))
                => GoodDetail(resps[k]) )
    => /\ pc # "raised"
       /\ Len(resps) = Len(members)
       /\ records = ExpectedRecords

\* three members, one with a null link, two with good details: two BookEntry
C2_Witness ==
    /\ pc = "returned"
    /\ Len(members) = 3
    /\ \E m \in 1..3 : members[m].link = PyNone
    /\ Len(Goods) = 2
    /\ records = ExpectedRecords

-----------------------------------------------------------------------------
(* C3 *)

AllForced(sts) == \A k \in 1..Len(sts) : sts[k] \in {400, 401}

\* The attempts before the one under way were all answered by 400 or 401,
\* leaving aside those that got no response (0) and those answered with a
\* Retry-After header (503), which the claim does not speak of.
RetriedOnlyAfterForced ==
    \A k \in 1..(attempts - 1) :
        k <= Len(statuses) => statuses[k] \in {400, 401} \cup {0, 503}

\* C3 as claimed: no GET is attempted more than 5 times, a new attempt follows
\* only a 400 or a 401, [400, 401, 400, 200] succeeds on the 4th attempt, and
\* five 400 in a row make the GET fail with no sixth attempt.
C3_AtMostFiveAttempts ==
    /\ attempts <= 5
    /\ RetriedOnlyAfterForced
    /\ statuses = <<400, 401, 400, 200>> => pc = "get_returned" /\ attempts = 4
    /\ statuses = <<400, 400, 400, 400, 400>>
          => pc = "get_raised" /\ error = "RetryError"

\* C3 amended: no GET is attempted more than max_retries + 1 = 6 times; a new
\* attempt follows only a 400 or a 401; [400, 401, 400, 200] succeeds on the 4th
\* attempt; five 400 in a row are followed by a sixth attempt; six 400 or 401
\* in a row make the GET fail with RetryError, and no GET of an https URL fails
\* before its sixth attempt.
C3_AtMostSixAttempts ==
    /\ attempts <= max_retries + 1
    /\ Len(statuses) <= attempts /\ attempts <= Len(statuses) + 1
    /\ RetriedOnlyAfterForced
    /\ statuses = <<400, 401, 400, 200>> => pc = "get_returned" /\ attempts = 4
    /\ statuses = <<400, 400, 400, 400, 400>> => pc = "get" /\ error = "none"
    /\ (Len(statuses) = max_retries + 1 /\ AllForced(statuses))
          => pc = "get_raised" /\ error = "RetryError" /\ attempts = max_retries + 1
    /\ (pc = "get_raised" /\ scheme = "https") => Len(statuses) = max_retries + 1
    /\ error = "RetryError" => statuses[Len(statuses)] \in {400, 401}

\* six 400 in a row have exhausted the retries
C3_Witness ==
    /\ pc = "get_raised"
    /\ statuses = <<400, 400, 400, 400, 400, 400>>

-----------------------------------------------------------------------------
(* C4 *)

NoDetailRequest == \A k \in 1..Len(reqlog) : reqlog[k].target = 0

NothingReturned ==
    /\ pc = "raised"
    /\ records = <<>>
    /\ rendered = NotSorted /\ sort_method = "unset"

\* C4: a list GET that exhausts its retries ends the call with the exception of
\* session.get (RetryError, or ConnectionError), a decoded list response
\* without "member" or without "total_record_count" ends it with KeyError;
\* either way no detail GET was sent and nothing is returned.
C4_ListFailureIsFatal ==
    /\ listResp.kind \in {"RetryError", "ConnectionError"}
          => error = listResp.kind /\ NoDetailRequest /\ NothingReturned
    /\ ( /\ listResp.kind = "response"
         /\ listResp.body.json
         /\ ~listResp.body.has_member \/ ~listResp.body.has_count )
          => error = "KeyError" /\ NoDetailRequest /\ NothingReturned

\* the list response had members but no "total_record_count"
C4_Witness ==
    /\ listResp = Response(200, ListNoCount)
    /\ pc = "raised"

-----------------------------------------------------------------------------
(* C5 *)

\* C5: __cleanStringData returns a str for every value it is called on.
C5_CleanNeverFails == cleanRet # NotCalled => cleanRet.t = "str"

-----------------------------------------------------------------------------
(* C6 *)

DropLastExcluded(cs) ==
    IF cs # <<>> /\ cs[Len(cs)] \in excluded_chars
    THEN SubSeq(cs, 1, Len(cs) - 1) ELSE cs

DropFirstExcluded(cs) ==
    IF cs # <<>> /\ cs[1] \in excluded_chars THEN Tail(cs) ELSE cs

\* what the examples have in common, whatever "  [Hello]. " is cleaned to
CleanExamples(hello) ==
    /\ cleanArg = PyNone => cleanRet = PyStr(NA)
    /\ cleanArg.t = "int" => cleanRet = PyStr(NA)
    /\ cleanArg = PyStr(Plain) => cleanRet = PyStr(Plain)
    /\ cleanArg = PyStr(BracketHello) => cleanRet = PyStr(hello)
    /\ (cleanArg.t = "str" /\ cleanRet.t = "str")
          => cleanRet.s = strip(DropFirstExcluded(DropLastExcluded(cleanArg.s)))

\* C6 as claimed: "N/A" for None and for a value that is no str, "plain" for
\* "plain", "Hello" for "  [Hello]. "; a str result is the input without its last
\* character if excluded, then without its first if excluded, then stripped.
C6_HelloIsCleaned == cleanRet # NotCalled => CleanExamples(Hello)

\* C6 amended: the same, with "[Hello]." as the result for "  [Hello]. ".
C6_HelloKeepsBrackets == cleanRet # NotCalled => CleanExamples(HelloInBrackets)

C6_Witness == cleanArg = PyStr(BracketHello) /\ cleanRet = PyStr(HelloInBrackets)

-----------------------------------------------------------------------------
(* C7 *)

NoOuterWhitespace(cs) ==
    cs = <<>> \/ (cs[1] \notin Whitespace /\ cs[Len(cs)] \notin Whitespace)

\* C7: at every point of the fetch each field of each BookEntry in `records` is
\* a str without leading or trailing whitespace, and is "N/A" when the value in
\* the payload was null or no str.
C7_RecordFieldsAreCleanStrings ==
    /\ Len(records) = Len(Goods)
    /\ \A k \in 1..Len(records) : \A f \in Fields :
          /\ records[k][f].t = "str"
          /\ NoOuterWhitespace(records[k][f].s)
          /\ Goods[k].body[f].t # "str" => records[k][f] = PyStr(NA)

\* a BookEntry made from a payload with padded strings and a number as isbn
C7_Witness ==
    \E k \in 1..Len(records) :
        /\ k <= Len(Goods)
        /\ Goods[k].body = BodyB2001
        /\ records[k].isbn = PyStr(NA)
        /\ records[k].title = PyStr(<<"b">>)

-----------------------------------------------------------------------------
(* C8 *)

TitleOf(b) == b.title.s

Titles(l) == [k \in 1..Len(l) |-> TitleOf(l[k])]

WithTitle(l, ti) == SelectSeq(l, LAMBDA b : TitleOf(b) = ti)

DistinctTitles(l) ==
    \A j, k \in 1..Len(l) : TitleOf(l[j]) = TitleOf(l[k]) => j = k

\* C8 as claimed: the descending sort of the ascending sort is its reverse,
\* also when records share a title.
C8_DescendingIsMirror ==
    sortDesc # NotSorted => sortDesc.l = Reverse(sortAsc.l)

\* C8 amended: the descending sort of the ascending sort lists the titles in
\* the reverse order, and is the reverse of the ascending sort when no two
\* records share a title; records that share a title keep, in both results, the
\* order they have in R.
C8_DescendingMirrorsTitles ==
    sortDesc # NotSorted =>
        /\ Titles(sortDesc.l) = Reverse(Titles(sortAsc.l))
        /\ DistinctTitles(sortAsc.l) => sortDesc.l = Reverse(sortAsc.l)
        /\ \A ti \in SortTitles :
              /\ WithTitle(sortDesc.l, ti) = WithTitle(sortAsc.l, ti)
              /\ sortArg.t = "list" => WithTitle(sortAsc.l, ti) = WithTitle(sortArg.l, ti)

\* three records sorted both ways, two of them different with the same title
C8_Witness ==
    /\ sortDesc # NotSorted
    /\ Len(sortArg.l) = 3
    /\ \E j, k \in 1..3 :
          /\ TitleOf(sortArg.l[j]) = TitleOf(sortArg.l[k])
          /\ sortArg.l[j] # sortArg.l[k]

-----------------------------------------------------------------------------
(* C9 *)

DateSorts == {"ascending_publish_date", "descending_publish_date"}

Sorted == pc \in {"rendered", "sort_raised"} /\ sort_method \in DateSorts

HasNADate == \E k \in 1..Len(records) : records[k].date_of_publication = PyStr(NA)

DateValue(b) == int(b.date_of_publication).v

\* C9: a payload whose date_of_publication is null still gives a BookEntry, with
\* "N/A" as its date; sortRecordsByPublishDate raises ValueError on a list with
\* such a BookEntry, in either direction, and returns nothing; on a list whose
\* dates are all numbers it returns the same BookEntry in the order of the
\* numbers: 2001, 1999, 2010 gives 1999, 2001, 2010, or the reverse if descending.
C9_DateSort ==
    /\ \A k \in 1..Len(resps) :
          (resps[k].kind = "response" /\ Ok(resps[k].status)
              /\ resps[k].body = BodyNullDate)
          => LET n == Len(SelectSeq(SubSeq(resps, 1, k), GoodDetail))
             IN  /\ GoodDetail(resps[k])
                 /\ n <= Len(records)
                 /\ records[n].date_of_publication = PyStr(NA)
    /\ (Sorted /\ HasNADate)
          => pc = "sort_raised" /\ error = "ValueError" /\ rendered = NotSorted
    /\ (Sorted /\ ~HasNADate)
          => /\ pc = "rendered"
             /\ Len(rendered.l) = Len(records)
             /\ \A k \in 1..Len(records) :
                   Count(rendered.l, records[k]) = Count(records, records[k])
             /\ \A j, k \in 1..Len(rendered.l) :
                   j < k => IF sort_method = "ascending_publish_date"
                            THEN DateValue(rendered.l[j]) <= DateValue(rendered.l[k])
                            ELSE DateValue(rendered.l[j]) >= DateValue(rendered.l[k])
             /\ Dates(records) = <<Y2001, Y1999, Y2010>>
                   => Dates(rendered.l) =
                        IF sort_method = "ascending_publish_date"
                        THEN <<Y1999, Y2001, Y2010>>
                        ELSE <<Y2010, Y2001, Y1999>>

\* a date sort of three BookEntry, one of them made from a null date
C9_Witness ==
    /\ pc = "sort_raised"
    /\ Len(records) = 3
    /\ HasNADate
    /\ \E k \in 1..Len(resps) : resps[k].body = BodyNullDate /\ GoodDetail(resps[k])

-----------------------------------------------------------------------------
(* C10 *)

\* C10: the call has one session; at most one request is awaiting its answer,
\* and only while the session is open; every GET was begun with the session
\* open, the list GET first and the detail GETs after it in the order of the
\* members; when the call is over, by return or by any exception, the session
\* is closed and no request is left; the session is closed only then.
C10_OneSessionOneRequestAtATime ==
    /\ inflight \in {0, 1}
    /\ inflight = 1 => session = "open"
    /\ \A k \in 1..Len(reqlog) : reqlog[k].session = "open" /\ reqlog[k].pending = 0
    /\ reqlog # <<>> => reqlog[1].target = 0
    /\ \A k \in 2..Len(reqlog) : reqlog[k - 1].target < reqlog[k].target
    /\ Ended => session = "closed" /\ inflight = 0
    /\ session = "closed" => Ended

\* an exception raised while an item was processed, after two GETs
C10_Witness ==
    /\ pc = "raised"
    /\ error = "IndexError"
    /\ Len(reqlog) >= 2
    /\ session = "closed"

=============================================================================
